---- MODULE Spec2Model ----
(***************************************************************************)
(* obliterate (src/src/main.rs): remove a directory tree; when a removal   *)
(* is denied, make the gating directory owner-writable and retry once.     *)
(*                                                                         *)
(* The program is single-threaded.  The model is the program (main,        *)
(* remove_path, remove_file_or_dir and its cfg(unix) helpers) running      *)
(* against a POSIX filesystem in which the caller is the unprivileged      *)
(* owner of every node, so the owner permission bits decide, plus an       *)
(* immutable flag that stands for every obstacle the bits do not show.     *)
(***************************************************************************)
EXTENDS Integers, Sequences, FiniteSets, TLC

\* ---------------------------------------------------------------- bounds
MaxDepth == 2   \* nesting depth of directories below the container
MaxFiles == 2   \* plain files in the tree
MaxRoots == 2   \* command-line paths in one run of main

\* ----------------------------------------------------------- mode bits
\* 0o200, the owner-write bit of set_writable and is_writable
S_IWUSR == 128
S_IRUSR == 2 * S_IWUSR
S_IXUSR == S_IWUSR \div 2

Oct(u, g, o) == 64 * u + 8 * g + o

\* | and & on mode words, bit by bit from the lowest.
RECURSIVE OrBits(_, _)
OrBits(a, b) ==
    IF a = 0 THEN b
    ELSE IF b = 0 THEN a
    ELSE (IF a % 2 = 1 \/ b % 2 = 1 THEN 1 ELSE 0) + 2 * OrBits(a \div 2, b \div 2)

RECURSIVE AndBits(_, _)
AndBits(a, b) ==
    IF a = 0 \/ b = 0 THEN 0
    ELSE (IF a % 2 = 1 /\ b % 2 = 1 THEN 1 ELSE 0) + 2 * AndBits(a \div 2, b \div 2)

\* The operands are evaluated once, then combined.
BitOr(a, b)  == CHOOSE r \in {OrBits(x, y) : x \in {a}, y \in {b}} : TRUE
BitAnd(a, b) == CHOOSE r \in {AndBits(x, y) : x \in {a}, y \in {b}} : TRUE

\* ---------------------------------------------------------------- paths
\* A path is the sequence of its components, as std::path::Path sees it:
\* an absolute path starts with the root component "/", a relative path
\* does not, and the empty path is <<>>.
DirNames  == <<"dir1", "dir2", "dir3", "dir4">>
FileNames == <<"file1", "file2", "file3">>

Slash     == <<"/">>
Container == <<"/", "tmp">>
Cwd       == Container

DirPath(k)     == Container \o SubSeq(DirNames, 1, k)
FilePath(k, i) == Append(DirPath(k), FileNames[i])

Levels == 1..MaxDepth
Dirs   == {DirPath(k) : k \in 0..MaxDepth}
Files  == {FilePath(k, i) : k \in Levels, i \in 1..MaxFiles}
Nodes  == Dirs \cup Files

Front(p) == SubSeq(p, 1, Len(p) - 1)

\* Path::parent: None for the empty path and for the root directory.
PathParent(p) == IF p = <<>> \/ p = Slash THEN {} ELSE {Front(p)}

\* What the kernel resolves a path to: relative paths start at the cwd,
\* the empty path names nothing.
Resolve(p) ==
    IF p = <<>> THEN <<>>
    ELSE IF p[1] = "/" THEN p
    ELSE Cwd \o p

IsPrefix(a, b) == Len(a) <= Len(b) /\ SubSeq(b, 1, Len(a)) = a
IsProperPrefix(a, b) == Len(a) < Len(b) /\ IsPrefix(a, b)

\* The value held by a one-element set: {F(x) : x \in {e}} evaluates e once
\* and hands its value to F.
The(S) == CHOOSE x \in S : TRUE

\* ----------------------------------------------------------- filesystem
Absent == [kind |-> "absent", mode |-> 0]

\* The inode at an absolute path; "/" is an ordinary directory that is not
\* part of the modelled state.
Stat(f, n) ==
    IF n = Slash THEN [kind |-> "dir", mode |-> Oct(7, 5, 5)]
    ELSE IF n \in Nodes THEN f[n]
    ELSE Absent

\* bit is a single permission bit.
Has(mode, bit) == (mode \div bit) % 2 = 1

ChildrenOf(f, d) == {n \in Nodes : Len(n) = Len(d) + 1 /\ IsPrefix(d, n) /\ f[n].kind # "absent"}

\* Path resolution: every directory on the way must exist, be a directory
\* and grant search (x) to the owner.  The first failing ancestor decides.
AncestorErr(f, a) ==
    LET s == Stat(f, a) IN
    IF s.kind = "absent" THEN "ENOENT"
    ELSE IF s.kind # "dir" THEN "ENOTDIR"
    ELSE IF ~Has(s.mode, S_IXUSR) THEN "EACCES"
    ELSE "OK"

LookupParentErr(f, n) ==
    IF n = <<>> THEN "ENOENT"
    ELSE LET bad == {i \in 1..(Len(n) - 1) : AncestorErr(f, SubSeq(n, 1, i)) # "OK"} IN
         IF bad = {} THEN "OK"
         ELSE AncestorErr(f, SubSeq(n, 1, CHOOSE i \in bad : \A j \in bad : i <= j))

LookupErr(f, n) ==
    LET e == LookupParentErr(f, n) IN
    IF e # "OK" THEN e
    ELSE IF Stat(f, n).kind = "absent" THEN "ENOENT"
    ELSE "OK"

\* -------------------------------------------------------------- syscalls
\* io::Error::kind(): EACCES and EPERM are both ErrorKind::PermissionDenied.
AnyErrorIsDenied(e) == TRUE

IsPermissionDenied(e) == e \in {"EACCES", "EPERM"}

\* fs::remove_file (unlink) and fs::remove_dir (rmdir): the errno, "OK" on
\* success.  Deleting needs write and search permission on the containing
\* directory; the permission check comes before the directory-not-empty
\* check.
RemoveErr(f, imm, p, is_dir) ==
    LET n == Resolve(p)
        e == LookupErr(f, n)
    IN  IF e # "OK" THEN e
        ELSE IF n = Slash THEN "EBUSY"
        ELSE IF Front(n) \in imm THEN "EPERM"
        ELSE IF Front(n) = Slash \/ ~Has(Stat(f, Front(n)).mode, S_IWUSR) THEN "EACCES"
        ELSE IF n \in imm THEN "EPERM"
        ELSE IF is_dir /\ Stat(f, n).kind # "dir" THEN "ENOTDIR"
        ELSE IF ~is_dir /\ Stat(f, n).kind = "dir" THEN "EISDIR"
        ELSE IF is_dir /\ ChildrenOf(f, n) # {} THEN "ENOTEMPTY"
        ELSE "OK"

\* The filesystem after a successful unlink or rmdir of p.
RemoveItem(f, p) == [f EXCEPT ![Resolve(p)] = Absent]

\* Path::metadata (stat)
MetadataErr(f, p) == LookupErr(f, Resolve(p))

\* fs::set_permissions (chmod): only the owner may, and not on an
\* immutable inode.
SetPermissionsErr(f, imm, p) ==
    LET n == Resolve(p)
        e == LookupErr(f, n)
    IN  IF e # "OK" THEN e
        ELSE IF n = Slash \/ n \in imm THEN "EPERM"
        ELSE "OK"

\* The filesystem after a successful chmod of p.
SetPermissions(f, p, mode) == [f EXCEPT ![Resolve(p)].mode = mode]

\* fs::read_dir (opendir), as WalkDir calls it: needs read permission.
ReadDirErr(f, p) ==
    LET n == Resolve(p)
        e == LookupErr(f, n)
    IN  IF e # "OK" THEN e
        ELSE IF Stat(f, n).kind # "dir" THEN "ENOTDIR"
        ELSE IF ~Has(Stat(f, n).mode, S_IRUSR) THEN "EACCES"
        ELSE "OK"

\* ------------------------------------------------- cfg(unix) helpers
WideSetWritable(mode) == BitOr(mode, Oct(2, 2, 2))

set_writable(mode) == BitOr(mode, S_IWUSR)

GroupWritable(mode) == BitAnd(mode, Oct(0, 2, 0)) # 0

is_writable(mode) == BitAnd(mode, S_IWUSR) # 0

\* Ok(parent) or the "Cannot make parent path writable" error.
path_to_make_writable_not_unix(p) == [ok |-> TRUE, path |-> p]

path_to_make_writable(p) ==
    IF PathParent(p) = {} THEN [ok |-> FALSE, path |-> <<>>]
    ELSE [ok |-> TRUE, path |-> CHOOSE q \in PathParent(p) : TRUE]

\* ------------------------------------------------------------ the remover
\* The outcome of one call of remove_file_or_dir: the filesystem it leaves,
\* its result, and what it did on the way (removal primitive calls,
\* metadata reads, permission changes).
Outcome(f, ok, err, removes, metas, chmods) ==
    [fs |-> f, ok |-> ok, err |-> err, removes |-> removes, metas |-> metas, chmods |-> chmods]

\* Lines 129-130: the permission target is writable now; try deleting one
\* last time and return what that gives.
NoRetry(f, imm, p, is_dir, chg) == Outcome(f, FALSE, "EACCES", 1, 1, chg)

RetryAgain(f, imm, p, is_dir, chg) ==
    IF RemoveErr(f, imm, p, is_dir) = "OK"
    THEN Outcome(RemoveItem(f, p), TRUE, "", 2, 1, chg)
    ELSE Outcome(f, FALSE, RemoveErr(f, imm, p, is_dir), 3, 1, chg)

RetryRemoveRestoring(f, imm, p, is_dir, chg) ==
    IF RemoveErr(f, imm, p, is_dir) = "OK"
    THEN Outcome(SetPermissions(RemoveItem(f, p), chg[1].path, chg[1].old), TRUE, "", 2, 1, chg)
    ELSE Outcome(SetPermissions(f, chg[1].path, chg[1].old), FALSE,
                 RemoveErr(f, imm, p, is_dir), 2, 1, chg)

RetryRemove(f, imm, p, is_dir, chg) ==
    IF RemoveErr(f, imm, p, is_dir) = "OK"
    THEN Outcome(RemoveItem(f, p), TRUE, "", 2, 1, chg)
    ELSE Outcome(f, FALSE, RemoveErr(f, imm, p, is_dir), 2, 1, chg)

\* Lines 108-128: the permission target's metadata was read and its mode
\* is old.
FixPermissionsIgnoringFailure(f, imm, p, is_dir, e1, target, old) ==
    IF is_writable(old) THEN Outcome(f, FALSE, e1, 1, 1, <<>>)
    ELSE IF SetPermissionsErr(f, imm, target) # "OK"
         THEN RetryRemove(f, imm, p, is_dir, <<>>)
    ELSE RetryRemove(SetPermissions(f, target, set_writable(old)), imm, p, is_dir,
                     <<[path |-> target, old |-> old, new |-> set_writable(old)]>>)

FixPermissions(f, imm, p, is_dir, e1, target, old) ==
    IF is_writable(old) THEN Outcome(f, FALSE, e1, 1, 1, <<>>)
    ELSE IF SetPermissionsErr(f, imm, target) # "OK"
         THEN Outcome(f, FALSE, "SetPermissionsFailed", 1, 1, <<>>)
    ELSE The({RetryRemove(g, imm, p, is_dir,
                          <<[path |-> target, old |-> old, new |-> set_writable(old)]>>)
                : g \in {SetPermissions(f, target, set_writable(old))}})

\* Lines 96-107: the first attempt failed with PermissionDenied (e1).
RecoverDenied(f, imm, p, is_dir, e1, target) ==
    IF ~target.ok THEN Outcome(f, FALSE, "NoParent", 1, 0, <<>>)
    ELSE IF MetadataErr(f, target.path) # "OK"
         THEN Outcome(f, FALSE, "MetadataReadFailed", 1, 1, <<>>)
    ELSE The({FixPermissions(f, imm, p, is_dir, e1, target.path, old)
                : old \in {Stat(f, Resolve(target.path)).mode}})

\* Lines 79-83: the result e1 of the first attempt decides.
AfterFirstAttempt(f, imm, p, is_dir, e1) ==
    IF e1 = "OK" THEN Outcome(RemoveItem(f, p), TRUE, "", 1, 0, <<>>)
    ELSE IF ~IsPermissionDenied(e1) THEN Outcome(f, FALSE, e1, 1, 0, <<>>)
    ELSE The({RecoverDenied(f, imm, p, is_dir, e1, target)
                : target \in {path_to_make_writable(p)}})

remove_file_or_dir(f, imm, p, is_dir) ==
    The({AfterFirstAttempt(f, imm, p, is_dir, e1) : e1 \in {RemoveErr(f, imm, p, is_dir)}})

\* ------------------------------------------------------------------ state
VARIABLES
    fs,             \* the filesystem: node -> [kind, mode]
    immutable,      \* nodes carrying an obstacle the mode bits do not show
    roots,          \* opt.paths
    idx,            \* main: index of the path the for loop is at
    pc,             \* "main" (between paths), "walk" (inside remove_path), "exit"
    exit_code,      \* process exit status, -1 while running
    results,        \* what remove_path returned for each path so far (TRUE = Ok)
    start,          \* walker: the root not yet taken (Option)
    stack_list,     \* walker: the open directory lists, innermost last
    deferred_dirs,  \* walker: directories waiting for their contents
    success,        \* remove_path: its local flag
    fs0,            \* the filesystem when the current traversal began
    produced,       \* what the walker has yielded in the current traversal
    attempts,       \* the remover calls of the current traversal, in order
    diag            \* diagnostic lines of the current traversal

walker == <<start, stack_list, deferred_dirs>>
logs   == <<fs0, produced, attempts, diag>>
vars   == <<fs, immutable, roots, idx, pc, exit_code, results, start, stack_list,
           deferred_dirs, success, fs0, produced, attempts, diag>>

\* ------------------------------------------------------------ initial states
PlainDirModes == {Oct(7, 5, 5), Oct(5, 5, 5)}
\* rwx, r-x, r-x with group write, -wx (not listable), r-- (not searchable)
DirModes  == PlainDirModes \cup {Oct(5, 7, 5), Oct(3, 5, 5), Oct(4, 5, 5)}
FileModes == {Oct(6, 4, 4), Oct(4, 4, 4)}

\* A tree below the container: dm[k] is the mode of the directory at level
\* k and fm[k][i] the mode of its i-th file, 0 where there is none.
WellFormed(dm, fm) ==
    /\ \A k \in Levels : dm[k] = 0 => \A i \in 1..MaxFiles : fm[k][i] = 0
    /\ \A k \in Levels : k > 1 /\ dm[k] # 0 => dm[k - 1] # 0
    /\ \A k \in Levels : \A i \in 2..MaxFiles : fm[k][i] # 0 => fm[k][i - 1] # 0
    /\ Cardinality({ki \in Levels \X (1..MaxFiles) : fm[ki[1]][ki[2]] # 0}) <= MaxFiles

LevelOfDir(n) == Len(n) - Len(Container)

FileIndex(n) == CHOOSE i \in 1..MaxFiles : FileNames[i] = n[Len(n)]

Build(cm, dm, fm) ==
    [n \in Nodes |->
        IF n = Container THEN [kind |-> "dir", mode |-> cm]
        ELSE IF n \in Dirs
             THEN IF dm[LevelOfDir(n)] = 0 THEN Absent
                  ELSE [kind |-> "dir", mode |-> dm[LevelOfDir(n)]]
        ELSE IF fm[LevelOfDir(n) - 1][FileIndex(n)] = 0 THEN Absent
             ELSE [kind |-> "file", mode |-> fm[LevelOfDir(n) - 1][FileIndex(n)]]]

\* The files of one directory: any modes (names are used in order), or
\* 0..MaxFiles files of one mode.
AnyFiles(fms) ==
    {fm \in [1..MaxFiles -> fms \cup {0}] : \A i \in 2..MaxFiles : fm[i] # 0 => fm[i - 1] # 0}

UniformFiles(m) == {[i \in 1..MaxFiles |-> IF i <= c THEN m ELSE 0] : c \in 0..MaxFiles}

\* The filesystem holds the tree dir1 below the container.
TreeInit(cms, dms, fcs) ==
    \E cm \in cms, dm \in [Levels -> dms \cup {0}], fm \in [Levels -> fcs] :
        /\ dm[1] # 0
        /\ WellFormed(dm, fm)
        /\ fs = Build(cm, dm, fm)

InitProgram ==
    /\ idx = 1
    /\ pc = "main"
    /\ exit_code = -1
    /\ results = <<>>
    /\ start = {}
    /\ stack_list = <<>>
    /\ deferred_dirs = <<>>
    /\ success = TRUE
    /\ fs0 = fs
    /\ produced = <<>>
    /\ attempts = <<>>
    /\ diag = <<>>

TreeRoot == DirPath(1)

\* One root, the tree at an absolute path.  Directories are writable or
\* read-only; every file is there or not, writable or read-only.
InitModes ==
    /\ TreeInit(PlainDirModes, PlainDirModes, AnyFiles(FileModes))
    /\ immutable = {}
    /\ roots = <<TreeRoot>>
    /\ InitProgram

\* One root; directories of every mode, also not listable or not
\* searchable.
InitOddModes ==
    /\ TreeInit(PlainDirModes, DirModes, UniformFiles(Oct(6, 4, 4)))
    /\ immutable = {}
    /\ roots = <<TreeRoot>>
    /\ InitProgram

\* One root, absolute or relative to the cwd; plain modes, and one
\* directory is immutable.
InitObstacle ==
    /\ TreeInit(PlainDirModes, PlainDirModes, UniformFiles(Oct(6, 4, 4)))
    /\ \E d \in Dirs : fs[d].kind = "dir" /\ immutable = {d}
    /\ \E r \in {TreeRoot, <<DirNames[1]>>} : roots = <<r>>
    /\ InitProgram

\* The forms of path a caller may give: absolute, relative to the cwd, a
\* plain file.
RootCandidates == {TreeRoot, <<DirNames[1]>>, FilePath(1, 1)}

\* 1..MaxRoots roots of any form over the chain of directories with one
\* file in each (as far as MaxFiles allows), with plain modes.
InitRoots ==
    /\ \E cm \in PlainDirModes, dm \in [Levels -> PlainDirModes] :
            fs = Build(cm, dm, [k \in Levels |-> [i \in 1..MaxFiles |->
                                    IF i = 1 /\ k <= MaxFiles THEN Oct(6, 4, 4) ELSE 0]])
    /\ immutable = {}
    /\ \E n \in 1..MaxRoots : roots \in [1..n -> RootCandidates]
    /\ InitProgram

Init == InitModes \/ InitOddModes \/ InitObstacle \/ InitRoots

\* ------------------------------------------------------------------- main
\* main, for path in opt.paths: enter remove_path(&path); WalkDir::new(path)
RemovePathBegin ==
    /\ pc = "main"
    /\ idx <= Len(roots)
    /\ pc' = "walk"
    /\ start' = {roots[idx]}
    /\ stack_list' = <<>>
    /\ deferred_dirs' = <<>>
    /\ success' = TRUE
    /\ fs0' = fs
    /\ produced' = <<>>
    /\ attempts' = <<>>
    /\ diag' = <<>>
    /\ UNCHANGED <<fs, immutable, roots, idx, exit_code, results>>

\* main discards what remove_path returned and returns Ok(()).
ExitStatusFromResults(res) == IF \A i \in 1..Len(res) : res[i] THEN 0 ELSE 1

ExitStatus(res) == 0

MainReturn ==
    /\ pc = "main"
    /\ idx > Len(roots)
    /\ pc' = "exit"
    /\ exit_code' = ExitStatus(results)
    /\ UNCHANGED <<fs, immutable, roots, idx, results, walker, success, logs>>

\* ----------------------------------------------------------- remove_path
\* One round of the for loop that got Ok(entry): call the remover, and on
\* Err print a line and clear success.  The walker is left at (st, sl, dd)
\* for the next round: nothing ends the loop early.
VisitBodyStoppingAtFailure(entry, st, sl, dd) ==
    \E r \in {remove_file_or_dir(fs, immutable, q, d) : q \in {entry.path}, d \in {entry.is_dir}} :
    /\ start' = IF r.ok THEN st ELSE {}
    /\ stack_list' = IF r.ok THEN sl ELSE <<>>
    /\ deferred_dirs' = IF r.ok THEN dd ELSE <<>>
    /\ fs' = r.fs
    /\ produced' = Append(produced, [ok |-> TRUE, path |-> entry.path, is_dir |-> entry.is_dir])
    /\ attempts' = Append(attempts,
            [path |-> entry.path, is_dir |-> entry.is_dir, ok |-> r.ok, err |-> r.err,
             removes |-> r.removes, metas |-> r.metas, chmods |-> r.chmods])
    /\ diag' = IF r.ok THEN diag ELSE Append(diag, [what |-> "removing", path |-> entry.path])
    /\ success' = (success /\ r.ok)
    /\ UNCHANGED <<immutable, roots, idx, pc, exit_code, results, fs0>>

VisitBodyKeepingSuccess(entry, st, sl, dd) ==
    \E r \in {remove_file_or_dir(fs, immutable, q, d) : q \in {entry.path}, d \in {entry.is_dir}} :
    /\ start' = st
    /\ stack_list' = sl
    /\ deferred_dirs' = dd
    /\ fs' = r.fs
    /\ produced' = Append(produced, [ok |-> TRUE, path |-> entry.path, is_dir |-> entry.is_dir])
    /\ attempts' = Append(attempts,
            [path |-> entry.path, is_dir |-> entry.is_dir, ok |-> r.ok, err |-> r.err,
             removes |-> r.removes, metas |-> r.metas, chmods |-> r.chmods])
    /\ diag' = IF r.ok THEN diag ELSE Append(diag, [what |-> "removing", path |-> entry.path])
    /\ success' = success
    /\ UNCHANGED <<immutable, roots, idx, pc, exit_code, results, fs0>>

VisitBodyWithoutLine(entry, st, sl, dd) ==
    \E r \in {remove_file_or_dir(fs, immutable, q, d) : q \in {entry.path}, d \in {entry.is_dir}} :
    /\ start' = st
    /\ stack_list' = sl
    /\ deferred_dirs' = dd
    /\ fs' = r.fs
    /\ produced' = Append(produced, [ok |-> TRUE, path |-> entry.path, is_dir |-> entry.is_dir])
    /\ attempts' = Append(attempts,
            [path |-> entry.path, is_dir |-> entry.is_dir, ok |-> r.ok, err |-> r.err,
             removes |-> r.removes, metas |-> r.metas, chmods |-> r.chmods])
    /\ diag' = diag
    /\ success' = (success /\ r.ok)
    /\ UNCHANGED <<immutable, roots, idx, pc, exit_code, results, fs0>>

VisitBody(entry, st, sl, dd) ==
    \E r \in {remove_file_or_dir(fs, immutable, q, d) : q \in {entry.path}, d \in {entry.is_dir}} :
    /\ start' = st
    /\ stack_list' = sl
    /\ deferred_dirs' = dd
    /\ fs' = r.fs
    /\ produced' = Append(produced, [ok |-> TRUE, path |-> entry.path, is_dir |-> entry.is_dir])
    /\ attempts' = Append(attempts,
            [path |-> entry.path, is_dir |-> entry.is_dir, ok |-> r.ok, err |-> r.err,
             removes |-> r.removes, metas |-> r.metas, chmods |-> r.chmods])
    /\ diag' = IF r.ok THEN diag ELSE Append(diag, [what |-> "removing", path |-> entry.path])
    /\ success' = (success /\ r.ok)
    /\ UNCHANGED <<immutable, roots, idx, pc, exit_code, results, fs0>>

\* One round of the for loop that got Err(e): print a line, clear success.
ErrorBodyKeepingSuccess(p, st, sl, dd) ==
    /\ start' = st
    /\ stack_list' = sl
    /\ deferred_dirs' = dd
    /\ produced' = Append(produced, [ok |-> FALSE, path |-> p, is_dir |-> FALSE])
    /\ diag' = Append(diag, [what |-> "accessing", path |-> p])
    /\ success' = success
    /\ UNCHANGED <<fs, immutable, roots, idx, pc, exit_code, results, fs0, attempts>>

ErrorBody(p, st, sl, dd) ==
    /\ start' = st
    /\ stack_list' = sl
    /\ deferred_dirs' = dd
    /\ produced' = Append(produced, [ok |-> FALSE, path |-> p, is_dir |-> FALSE])
    /\ diag' = Append(diag, [what |-> "accessing", path |-> p])
    /\ success' = FALSE
    /\ UNCHANGED <<fs, immutable, roots, idx, pc, exit_code, results, fs0, attempts>>

\* The walker moves on without yielding: the loop body does not run.
NoBody == UNCHANGED <<fs, immutable, roots, idx, pc, exit_code, results, success, logs>>

\* ------------------------------------------------------------- the walker
\* WalkDir::new(path).contents_first(true)
ContentsLast == FALSE

ContentsFirst == TRUE

Top == stack_list[Len(stack_list)]

\* IntoIter::push: open the directory; a failed read_dir becomes a list
\* that yields the error once.
OpenDir(p) ==
    IF ReadDirErr(fs, p) = "OK"
    THEN [path |-> p, rem |-> {n[Len(n)] : n \in ChildrenOf(fs, Resolve(p))}, err |-> FALSE]
    ELSE [path |-> p, rem |-> {}, err |-> TRUE]

IsDirEntry(p) == Stat(fs, Resolve(p)).kind = "dir"

\* IntoIter::handle_entry for a directory: push it, then defer it
\* (contents first) or yield it at once.
HandleDir(entry, sl) ==
    IF ContentsFirst
    THEN /\ start' = {}
         /\ stack_list' = Append(sl, OpenDir(entry.path))
         /\ deferred_dirs' = Append(deferred_dirs, entry)
         /\ NoBody
    ELSE VisitBody(entry, {}, Append(sl, OpenDir(entry.path)), deferred_dirs)

TakeFromTop(name) ==
    [stack_list EXCEPT ![Len(stack_list)].rem = @ \ {name}]

\* The list on top of the stack is the one to read: no root pending, no
\* deferred directory due.
ReadingTop ==
    /\ pc = "walk"
    /\ start = {}
    /\ stack_list # <<>>
    /\ Len(deferred_dirs) <= Len(stack_list)

\* The walker takes a directory (the root or the next entry of the top
\* list) and descends into it.
WalkDescend ==
    \/ /\ pc = "walk"
       /\ \E s \in start :
            /\ LookupErr(fs, Resolve(s)) = "OK"
            /\ IsDirEntry(s)
            /\ HandleDir([path |-> s, is_dir |-> TRUE], stack_list)
    \/ /\ ReadingTop
       /\ ~Top.err
       /\ \E name \in Top.rem :
            /\ IsDirEntry(Append(Top.path, name))
            /\ HandleDir([path |-> Append(Top.path, name), is_dir |-> TRUE], TakeFromTop(name))

\* The top list is exhausted: IntoIter::pop.
WalkPopStuck ==
    /\ ReadingTop
    /\ ~Top.err
    /\ Top.rem = {}
    /\ stack_list' = stack_list
    /\ UNCHANGED <<start, deferred_dirs>>
    /\ NoBody

WalkPop ==
    /\ ReadingTop
    /\ ~Top.err
    /\ Top.rem = {}
    /\ stack_list' = SubSeq(stack_list, 1, Len(stack_list) - 1)
    /\ UNCHANGED <<start, deferred_dirs>>
    /\ NoBody

\* The walker yields Ok(entry): the root when it is a plain file, a plain
\* file of the top list, or a deferred directory whose contents are done.
VisitEntry ==
    \/ /\ pc = "walk"
       /\ \E s \in start :
            /\ LookupErr(fs, Resolve(s)) = "OK"
            /\ ~IsDirEntry(s)
            /\ VisitBody([path |-> s, is_dir |-> FALSE], {}, stack_list, deferred_dirs)
    \/ /\ ReadingTop
       /\ ~Top.err
       /\ \E name \in Top.rem :
            /\ ~IsDirEntry(Append(Top.path, name))
            /\ VisitBody([path |-> Append(Top.path, name), is_dir |-> FALSE],
                         start, TakeFromTop(name), deferred_dirs)
    \/ /\ pc = "walk"
       /\ start = {}
       /\ Len(deferred_dirs) > Len(stack_list)
       /\ VisitBody(deferred_dirs[Len(deferred_dirs)], start, stack_list,
                    SubSeq(deferred_dirs, 1, Len(deferred_dirs) - 1))

\* The walker yields Err: the root cannot be accessed, or a directory
\* cannot be listed.
VisitError ==
    \/ /\ pc = "walk"
       /\ \E s \in start :
            /\ LookupErr(fs, Resolve(s)) # "OK"
            /\ ErrorBody(s, {}, stack_list, deferred_dirs)
    \/ /\ ReadingTop
       /\ Top.err
       /\ ErrorBody(Top.path, start,
                    [stack_list EXCEPT ![Len(stack_list)].err = FALSE], deferred_dirs)

\* The walker is done: remove_path returns Ok(()) if success, else bails.
\* main drops the result and goes on to the next path.
RemovePathEndStoppingAtFailure ==
    /\ pc = "walk"
    /\ start = {}
    /\ stack_list = <<>>
    /\ deferred_dirs = <<>>
    /\ results' = Append(results, success)
    /\ idx' = IF success THEN idx + 1 ELSE Len(roots) + 1
    /\ pc' = "main"
    /\ UNCHANGED <<fs, immutable, roots, exit_code, walker, success, logs>>

RemovePathEnd ==
    /\ pc = "walk"
    /\ start = {}
    /\ stack_list = <<>>
    /\ deferred_dirs = <<>>
    /\ results' = Append(results, success)
    /\ idx' = idx + 1
    /\ pc' = "main"
    /\ UNCHANGED <<fs, immutable, roots, exit_code, walker, success, logs>>

Next ==
    \/ RemovePathBegin
    \/ WalkDescend
    \/ WalkPop
    \/ VisitEntry
    \/ VisitError
    \/ RemovePathEnd
    \/ MainReturn

Spec == Init /\ [][Next]_vars

\* The program is one thread that runs until main returns: a step that can
\* be taken is taken.
LiveSpec == Spec /\ WF_vars(Next)

\* ============================================================== properties
\* A traversal has just returned; the logs describe it.
Walked == pc = "main" /\ idx > 1

\* The root of the current (or the last) traversal and the node it names.
CurRoot  == IF pc = "walk" THEN roots[idx] ELSE roots[idx - 1]
RootNode == Resolve(CurRoot)

\* What remove_path returned for it.
Reported == results[Len(results)]

\* The tree when the traversal began, and whether anything of it is left.
Tree0     == {n \in Nodes : IsPrefix(RootNode, n) /\ fs0[n].kind # "absent"}
TreeDirs0 == {n \in Tree0 : fs0[n].kind = "dir"}
Gone      == \A n \in Nodes : IsPrefix(RootNode, n) => fs[n].kind = "absent"

RootExists0 == LookupErr(fs0, RootNode) = "OK"

AttemptIdx == 1..Len(attempts)
ChmodCount == Cardinality({i \in AttemptIdx : attempts[i].chmods # <<>>})

\* ---- C1
\* C1: within one traversal no directory is handed to the remover before an
\* entry nested inside it: whenever the path of one attempt lies strictly
\* inside the path of another, the inner one came first.
C1_ContentsBeforeDirectory ==
    \A i, j \in AttemptIdx :
        IsProperPrefix(attempts[i].path, attempts[j].path) => j < i

\* A directory was attempted after an entry two levels below it.
C1_Witness ==
    \E i, j \in AttemptIdx :
        /\ j < i
        /\ IsProperPrefix(attempts[i].path, attempts[j].path)
        /\ Len(attempts[j].path) >= Len(attempts[i].path) + 2

\* ---- C2, C3, C4: what the tree looked like when the traversal began
NoWriteBit(m) == BitAnd(m, Oct(2, 2, 2)) = 0

\* Nothing but the permission bits stands in the way: no node of the tree
\* and not the directory holding the root is immutable.
NoObstacle0 == immutable \cap (Tree0 \cup {Front(RootNode)}) = {}

\* The root sits in a directory the caller can write to (and search).
ContainerWritable0 ==
    /\ Has(Stat(fs0, Front(RootNode)).mode, S_IWUSR)
    /\ Has(Stat(fs0, Front(RootNode)).mode, S_IXUSR)

Listable0(d)   == Has(fs0[d].mode, S_IRUSR)
Searchable0(d) == Has(fs0[d].mode, S_IXUSR)

AllReadOnly0 == \A n \in Tree0 : NoWriteBit(fs0[n].mode)
AllWritable0 == \A n \in Tree0 : Has(fs0[n].mode, S_IWUSR)

\* Exactly one node of the tree is read-only, the others are writable.
OneReadOnly0 ==
    \E ro \in Tree0 :
        /\ NoWriteBit(fs0[ro].mode)
        /\ \A n \in Tree0 \ {ro} : Has(fs0[n].mode, S_IWUSR)

\* ---- C2
\* C2 as claimed: a tree in which every node is read-only, whose
\* directories can be listed and whose root sits in a writable directory
\* (nothing immutable) is removed whole, with success and without a
\* diagnostic line.
C2_AllReadOnlyRemoved ==
    /\ Walked
    /\ RootExists0
    /\ NoObstacle0
    /\ ContainerWritable0
    /\ AllReadOnly0
    /\ \A d \in TreeDirs0 : Listable0(d)
    => Reported /\ Gone /\ diag = <<>>

\* C2 as amended: the same when the directories can also be searched
\* (owner x bit).
C2_AllReadOnlySearchableRemoved ==
    /\ Walked
    /\ RootExists0
    /\ NoObstacle0
    /\ ContainerWritable0
    /\ AllReadOnly0
    /\ \A d \in TreeDirs0 : Listable0(d) /\ Searchable0(d)
    => Reported /\ Gone /\ diag = <<>>

\* dir1/{file1, dir2/file1}, all read-only, was removed with two
\* permission fixes (dir2, then dir1) and no diagnostic line.
C2_Witness ==
    /\ Walked
    /\ RootNode = TreeRoot
    /\ AllReadOnly0
    /\ Tree0 = {DirPath(1), FilePath(1, 1), DirPath(2), FilePath(2, 1)}
    /\ Reported
    /\ Gone
    /\ diag = <<>>
    /\ ChmodCount = 2

\* ---- C3
\* C3 as claimed: a tree with exactly one read-only node, file or
\* directory, and otherwise writable (its directories listable, the
\* writable ones searchable), is removed with success.
C3_OneReadOnlyRemoved ==
    /\ Walked
    /\ RootExists0
    /\ NoObstacle0
    /\ ContainerWritable0
    /\ OneReadOnly0
    /\ \A d \in TreeDirs0 : Listable0(d)
    /\ \A d \in TreeDirs0 : Has(fs0[d].mode, S_IWUSR) => Searchable0(d)
    => Reported /\ Gone

\* C3 as amended: the same when the read-only node, if it is a directory,
\* can be searched.
C3_OneReadOnlySearchableRemoved ==
    /\ Walked
    /\ RootExists0
    /\ NoObstacle0
    /\ ContainerWritable0
    /\ OneReadOnly0
    /\ \A d \in TreeDirs0 : Listable0(d) /\ Searchable0(d)
    => Reported /\ Gone

\* The one read-only node was the root directory, with a directory and a
\* file below it, and the tree is gone.
C3_Witness ==
    /\ Walked
    /\ RootNode = TreeRoot
    /\ OneReadOnly0
    /\ NoWriteBit(fs0[TreeRoot].mode)
    /\ Cardinality(Tree0) >= 4
    /\ Reported
    /\ Gone

\* ---- C4
\* C4 as claimed: a tree of writable files and directories (in a writable
\* directory, nothing immutable) is removed whole, with success.
C4_AllWritableRemoved ==
    /\ Walked
    /\ RootExists0
    /\ NoObstacle0
    /\ ContainerWritable0
    /\ AllWritable0
    => Reported /\ Gone

\* C4 as amended: the same when the directories can also be listed and
\* searched.
C4_AllWritableListableRemoved ==
    /\ Walked
    /\ RootExists0
    /\ NoObstacle0
    /\ ContainerWritable0
    /\ AllWritable0
    /\ \A d \in TreeDirs0 : Listable0(d) /\ Searchable0(d)
    => Reported /\ Gone

\* dir1/{file1, dir2/file1}, all writable, was removed without a
\* permission change.
C4_Witness ==
    /\ Walked
    /\ RootNode = TreeRoot
    /\ AllWritable0
    /\ Tree0 = {DirPath(1), FilePath(1, 1), DirPath(2), FilePath(2, 1)}
    /\ Reported
    /\ Gone
    /\ ChmodCount = 0

\* ---- C5
AllOk ==
    /\ \A i \in 1..Len(produced) : produced[i].ok
    /\ \A i \in AttemptIdx : attempts[i].ok

\* C5: remove_path reports success exactly when the walker produced no
\* access error and the remover succeeded on every entry produced (the
\* flag says so all along the walk, and the return value at its end).
C5_SuccessIffNoFailure ==
    /\ pc = "walk" => (success <=> AllOk)
    /\ Walked => (Reported <=> AllOk)

\* A traversal without a walker error in which one removal failed and at
\* least three succeeded has reported failure.
C5_Witness ==
    /\ Walked
    /\ ~Reported
    /\ \A i \in 1..Len(produced) : produced[i].ok
    /\ Cardinality({i \in AttemptIdx : ~attempts[i].ok}) = 1
    /\ Len(attempts) >= 4

\* ---- C6
\* C6: when remove_path reports success, neither the root nor anything
\* below it exists any more.
C6_SuccessMeansGone == Walked /\ Reported => Gone

\* Success was reported for a tree of at least three entries, one of them
\* removed only after a permission fix.
C6_Witness ==
    /\ Walked
    /\ Reported
    /\ Cardinality(Tree0) >= 3
    /\ ChmodCount >= 1

\* ---- C7
IsOkItem(x) == x.ok

\* The entries the walker has to produce: the root, and every entry all of
\* whose ancestors inside the tree could be listed.
Expected0 ==
    IF ~RootExists0 THEN {}
    ELSE {n \in Tree0 : \A a \in Tree0 : IsProperPrefix(a, n) => ReadDirErr(fs0, a) = "OK"}

Unlistable0 == {d \in Expected0 : fs0[d].kind = "dir" /\ ReadDirErr(fs0, d) # "OK"}

\* C7: every entry the walker produces goes to the remover exactly once,
\* and no failure ends the walk: no path is attempted twice, the attempts
\* are the Ok items in the order produced, and when the traversal returns
\* every entry that could be reached has been attempted and every
\* directory that could not be listed has given exactly one error.
C7_EveryEntryAttemptedOnce ==
    /\ \A i, j \in AttemptIdx : i # j => attempts[i].path # attempts[j].path
    /\ LET oks == SelectSeq(produced, IsOkItem) IN
        /\ Len(oks) = Len(attempts)
        /\ \A i \in AttemptIdx : oks[i].path = attempts[i].path
    /\ Walked =>
        /\ {Resolve(attempts[i].path) : i \in AttemptIdx} = Expected0
        /\ RootExists0 =>
            /\ {Resolve(produced[i].path) : i \in {k \in 1..Len(produced) : ~produced[k].ok}}
                    = Unlistable0
            /\ Len(produced) = Cardinality(Expected0) + Cardinality(Unlistable0)

\* After a failed removal another entry was removed, and after a walker
\* error an entry outside the unreadable directory was attempted.
C7_Witness ==
    /\ Walked
    /\ \E i, j \in AttemptIdx : i < j /\ ~attempts[i].ok /\ attempts[j].ok
    /\ \E a, b \in 1..Len(produced) :
        /\ a < b
        /\ ~produced[a].ok
        /\ produced[b].ok
        /\ ~IsPrefix(produced[b].path, produced[a].path)

\* ---- C8
GroupOtherBits(m) == m % S_IXUSR

\* C8: a permission change adds the owner-write bit and nothing else: each
\* change goes from a mode without 0o200 to that mode plus 0o200, and every
\* node still there has the mode it had when the traversal began or that
\* mode plus 0o200, with the same group and other bits.
C8_OnlyOwnerWriteAdded ==
    /\ \A i \in AttemptIdx : \A k \in 1..Len(attempts[i].chmods) :
        /\ (attempts[i].chmods[k].old \div S_IWUSR) % 2 = 0
        /\ attempts[i].chmods[k].new = attempts[i].chmods[k].old + S_IWUSR
    /\ \A n \in Nodes : fs[n].kind # "absent" =>
        /\ fs[n].mode \in {fs0[n].mode, fs0[n].mode + S_IWUSR}
        /\ GroupOtherBits(fs[n].mode) = GroupOtherBits(fs0[n].mode)

\* A read-only directory was made owner-writable, the retry failed all the
\* same, and the directory is now rwxr-xr-x.
C8_Witness ==
    \E i \in AttemptIdx :
        /\ ~attempts[i].ok
        /\ attempts[i].chmods # <<>>
        /\ attempts[i].chmods[1].old = Oct(5, 5, 5)
        /\ fs[Resolve(attempts[i].chmods[1].path)].mode = Oct(7, 5, 5)

\* ---- C9
\* C9 as claimed: the exit status is zero only if every root was fully
\* removed, non-zero if one failed.
C9_ExitNonZeroOnFailure ==
    pc = "exit" => (exit_code = 0 <=> \A i \in 1..Len(results) : results[i])

\* C9 as amended: main has run remove_path on every root and exits with
\* status zero, whatever the results.
C9_ExitAlwaysZero ==
    pc = "exit" => exit_code = 0 /\ Len(results) = Len(roots)

\* The process has exited after a root failed.
C9_Witness == pc = "exit" /\ \E i \in 1..Len(results) : ~results[i]

\* ---- C10
\* C10: remove_path on a root that does not exist yields one walker error
\* and nothing else: no remover call, the filesystem as it was, one
\* "accessing" line, and failure.
C10_MissingRoot ==
    (pc = "walk" \/ Walked) /\ LookupErr(fs0, RootNode) = "ENOENT" =>
        /\ pc = "walk" => attempts = <<>> /\ fs = fs0
        /\ Walked =>
            /\ produced = <<[ok |-> FALSE, path |-> CurRoot, is_dir |-> FALSE]>>
            /\ attempts = <<>>
            /\ fs = fs0
            /\ diag = <<[what |-> "accessing", path |-> CurRoot]>>
            /\ ~Reported

\* The same root twice: the first call removed it, the second has just
\* returned failure.
C10_Witness ==
    /\ Walked
    /\ idx = 3
    /\ roots[1] = roots[2]
    /\ results = <<TRUE, FALSE>>

\* ---- C11
WalkerIdle == start = {} /\ stack_list = <<>> /\ deferred_dirs = <<>>

\* C11: main takes the roots one at a time in the order given.  The
\* traversal under way is that of roots[idx] and everything it produces
\* lies at or below that root; one result has been returned for each root
\* before it, whatever those results were; between traversals the walker
\* is idle; idx only ever moves on by one; and at exit every root has a
\* result.
C11_RootsInOrder ==
    /\ [](/\ idx \in 1..(Len(roots) + 1)
          /\ Len(results) = idx - 1
          /\ pc = "walk" =>
                /\ idx <= Len(roots)
                /\ \A i \in 1..Len(produced) : IsPrefix(roots[idx], produced[i].path)
          /\ pc # "walk" => WalkerIdle
          /\ pc = "exit" => Len(results) = Len(roots))
    /\ [][idx' = idx \/ (idx' = idx + 1 /\ pc = "walk" /\ WalkerIdle)]_vars

\* Two roots: the first reported failure, the second was processed all the
\* same and reported success.
C11_Witness == pc = "exit" /\ results = <<FALSE, TRUE>>

\* ---- C12
IsRemovingLine(l) == l.what = "removing"
IsFailedAttempt(a) == ~a.ok

\* The entries of the tree that are still there.
Present == {n \in Tree0 : fs[n].kind # "absent"}

RemovingLines == SelectSeq(diag, IsRemovingLine)

\* C12 as claimed: after a traversal the per-entry ("Error removing")
\* lines are as many as the entries of the tree still present.
C12_LinePerEntryLeft == Walked => Len(RemovingLines) = Cardinality(Present)

\* C12 as amended: the per-entry lines are the failed remover calls, one
\* each and in order; the entries they name are the entries still present
\* that the walker could reach, so when every directory of the tree can be
\* listed there is exactly one line for each entry left and none for an
\* entry removed; every walker error has a line of its own.
C12_LinePerFailedAttempt ==
    Walked =>
        /\ LET failed == SelectSeq(attempts, IsFailedAttempt) IN
            /\ Len(RemovingLines) = Len(failed)
            /\ \A i \in 1..Len(failed) : RemovingLines[i].path = failed[i].path
            /\ {Resolve(failed[i].path) : i \in 1..Len(failed)} = Present \cap Expected0
        /\ Len(diag) - Len(RemovingLines)
                = Cardinality({i \in 1..Len(produced) : ~produced[i].ok})
        /\ (RootExists0 /\ \A d \in TreeDirs0 : ReadDirErr(fs0, d) = "OK") =>
            /\ Len(diag) = Cardinality(Present)
            /\ \A n \in Tree0 :
                 Cardinality({i \in 1..Len(diag) : Resolve(diag[i].path) = n})
                     = IF n \in Present THEN 1 ELSE 0

\* A listable tree of which two entries were removed and two were left,
\* with two lines.
C12_Witness ==
    /\ Walked
    /\ \A d \in TreeDirs0 : ReadDirErr(fs0, d) = "OK"
    /\ Cardinality(Tree0) = 4
    /\ Cardinality(Present) = 2
    /\ Len(diag) = 2

\* ---- C13 to C17: one call of the remover, seen as a step
\* This step is a call of remove_file_or_dir; Call is its record, FirstErr
\* what the first removal attempt gives in the state it starts from.
Called   == Len(attempts') = Len(attempts) + 1
Call     == attempts'[Len(attempts')]
FirstErr == RemoveErr(fs, immutable, Call.path, Call.is_dir)

\* The filesystem after the permission change of this call.
AfterChmod == SetPermissions(fs, Call.chmods[1].path, Call.chmods[1].new)

\* C13: one call of the remover invokes the removal primitive once or
\* twice and changes permissions at most once.  It invokes the primitive a
\* second time exactly when the first attempt was permission-denied and a
\* permission change was then applied successfully, and what the second
\* attempt gives is what the call returns and leaves behind: success and
\* the entry gone, or that attempt's error and the entry still there.
C13_AtMostOneRetry ==
    [][Called =>
        /\ Call.removes \in {1, 2}
        /\ Len(Call.chmods) <= 1
        /\ Call.removes = 2 <=> Call.chmods # <<>>
        /\ Call.removes = 2 =>
            /\ IsPermissionDenied(FirstErr)
            /\ SetPermissionsErr(fs, immutable, Call.chmods[1].path) = "OK"
            /\ Call.ok <=> RemoveErr(AfterChmod, immutable, Call.path, Call.is_dir) = "OK"
            /\ Call.ok => fs' = RemoveItem(AfterChmod, Call.path)
            /\ ~Call.ok =>
                /\ Call.err = RemoveErr(AfterChmod, immutable, Call.path, Call.is_dir)
                /\ fs' = AfterChmod
      ]_vars

\* In one traversal a retry succeeded and another retry failed, the latter
\* returned as final.
C13_Witness ==
    /\ \E i \in AttemptIdx : attempts[i].removes = 2 /\ attempts[i].ok
    /\ \E i \in AttemptIdx : attempts[i].removes = 2 /\ ~attempts[i].ok

\* ---- C14
\* The permission target of this call and the mode it has when the call
\* starts.
Target     == path_to_make_writable(Call.path)
TargetMode == Stat(fs, Resolve(Target.path)).mode

\* The first attempt of this call is permission-denied and the metadata of
\* its permission target can be read.
DeniedWithTarget ==
    /\ Called
    /\ IsPermissionDenied(FirstErr)
    /\ Target.ok
    /\ MetadataErr(fs, Target.path) = "OK"

\* C14: when the first attempt is permission-denied and the permission
\* target already has the owner-write bit, the call fails with the error
\* of the first attempt, having called the removal primitive once and
\* changed nothing.
C14_WritableTargetIsTerminal ==
    [][DeniedWithTarget /\ Has(TargetMode, S_IWUSR) =>
        /\ ~Call.ok
        /\ Call.err = FirstErr
        /\ Call.removes = 1
        /\ Call.chmods = <<>>
        /\ fs' = fs
      ]_vars

\* A removal was denied although the containing directory is
\* owner-writable: the remover read its metadata and gave up with the
\* original error.
C14_Witness ==
    \E i \in AttemptIdx :
        /\ ~attempts[i].ok
        /\ IsPermissionDenied(attempts[i].err)
        /\ attempts[i].removes = 1
        /\ attempts[i].metas = 1
        /\ attempts[i].chmods = <<>>
        /\ Has(Stat(fs, Front(Resolve(attempts[i].path))).mode, S_IWUSR)

\* ---- C15
\* C15: when the first attempt fails with an error that is not
\* permission-denied, the call fails with that error at once: one call of
\* the removal primitive, no metadata read, no permission change, and the
\* filesystem as it was.
C15_OtherErrorsPropagate ==
    [][Called /\ FirstErr \notin {"OK", "EACCES", "EPERM"} =>
        /\ ~Call.ok
        /\ Call.err = FirstErr
        /\ Call.removes = 1
        /\ Call.metas = 0
        /\ Call.chmods = <<>>
        /\ fs' = fs
      ]_vars

\* A directory that still has contents could not be removed (directory not
\* empty): the remover called the primitive once and read no metadata.
C15_Witness ==
    \E i \in AttemptIdx :
        /\ attempts[i].err = "ENOTEMPTY"
        /\ attempts[i].removes = 1
        /\ attempts[i].metas = 0
        /\ ChildrenOf(fs, Resolve(attempts[i].path)) # {}

\* ---- C16
\* C16: after a permission-denied first attempt, a failed read of the
\* permission target's metadata ends the call with a failure, no
\* permission change and the filesystem as it was; a failed change of the
\* target's permissions ends it with a failure and the entry still there.
\* Neither is followed by a second call of the removal primitive.
C16_FailedFixIsTerminal ==
    [][Called /\ IsPermissionDenied(FirstErr) /\ Target.ok =>
        /\ MetadataErr(fs, Target.path) # "OK" =>
            /\ ~Call.ok
            /\ Call.err = "MetadataReadFailed"
            /\ Call.removes = 1
            /\ Call.chmods = <<>>
            /\ fs' = fs
        /\ (/\ MetadataErr(fs, Target.path) = "OK"
            /\ ~Has(TargetMode, S_IWUSR)
            /\ SetPermissionsErr(fs, immutable, Target.path) # "OK") =>
            /\ ~Call.ok
            /\ Call.err = "SetPermissionsFailed"
            /\ Call.removes = 1
            /\ fs'[Resolve(Call.path)] = fs[Resolve(Call.path)]
      ]_vars

\* In one traversal the permissions of a read-only directory could not be
\* changed, and the metadata of another permission target could not be
\* read; each time the remover stopped after its first attempt.
C16_Witness ==
    /\ \E i \in AttemptIdx :
        attempts[i].err = "SetPermissionsFailed" /\ attempts[i].removes = 1
    /\ \E i \in AttemptIdx :
        /\ attempts[i].err = "MetadataReadFailed"
        /\ attempts[i].removes = 1
        /\ attempts[i].chmods = <<>>

\* ---- C17
\* C17 as claimed: whenever the remover went on to read permissions after a
\* permission-denied removal, the path it read them from names the
\* directory that contains the entry.
C17_TargetIsContainingDirectory ==
    \A i \in AttemptIdx :
        attempts[i].metas = 1 =>
            /\ path_to_make_writable(attempts[i].path).ok
            /\ Resolve(path_to_make_writable(attempts[i].path).path)
                    = Front(Resolve(attempts[i].path))

\* ---- C18
\* The directory an attempt's entry sits in.
DirOf(a) == Front(Resolve(a.path))

\* C18: a permission fix is never undone.  Every directory whose
\* permissions the current traversal has changed is owner-writable still,
\* unless it has been removed since, whether the retry succeeded or not;
\* no directory was changed twice; and after a fix for one entry of a
\* directory no later entry of that directory needed another.
C18_FixesStay ==
    /\ \A i \in AttemptIdx : \A k \in 1..Len(attempts[i].chmods) :
        \/ Stat(fs, Resolve(attempts[i].chmods[k].path)).kind = "absent"
        \/ Has(Stat(fs, Resolve(attempts[i].chmods[k].path)).mode, S_IWUSR)
    /\ \A i, j \in AttemptIdx :
        (/\ i # j
         /\ attempts[i].chmods # <<>>
         /\ attempts[j].chmods # <<>>)
            => Resolve(attempts[i].chmods[1].path) # Resolve(attempts[j].chmods[1].path)
    /\ \A i, j \in AttemptIdx :
        (i < j /\ DirOf(attempts[i]) = DirOf(attempts[j]) /\ attempts[i].chmods # <<>>)
            => attempts[j].chmods = <<>>

\* A read-only directory was made writable for its first entry; its second
\* entry was then removed at the first attempt, and the directory is still
\* there and writable.
C18_Witness ==
    \E i, j \in AttemptIdx :
        /\ i < j
        /\ DirOf(attempts[i]) = DirOf(attempts[j])
        /\ attempts[i].chmods # <<>>
        /\ attempts[j].ok
        /\ attempts[j].removes = 1
        /\ Has(Stat(fs, DirOf(attempts[i])).mode, S_IWUSR)

\* ---- C19
\* A traversal is under way or has returned, so CurRoot and fs0 are its.
InOrAfterWalk == pc = "walk" \/ idx > 1

\* Nodes removed and nodes whose mode was changed since the traversal began.
Removed0 == {n \in Nodes : fs0[n].kind # "absent" /\ fs[n].kind = "absent"}
Chmodded0 == {n \in Nodes : fs[n].kind # "absent" /\ fs[n].mode # fs0[n].mode}

\* Where the current traversal changed permissions, by its own record.
ChmodTargets ==
    {Resolve(attempts[i].chmods[1].path) : i \in {k \in AttemptIdx : attempts[k].chmods # <<>>}}

\* Removals stay inside the tree; permission changes are made to the
\* directory of the entry being removed, which is a directory of the tree
\* or the directory holding the root; nothing else changes.
Confined ==
    /\ \A n \in Removed0 : IsPrefix(RootNode, n)
    /\ \A i \in AttemptIdx : \A k \in 1..Len(attempts[i].chmods) :
        /\ Resolve(attempts[i].chmods[k].path) = DirOf(attempts[i])
        /\ DirOf(attempts[i]) \in TreeDirs0 \cup {Front(RootNode)}
    /\ Chmodded0 \subseteq ChmodTargets
    /\ \A n \in Nodes : fs[n] # fs0[n] => n \in Removed0 \cup Chmodded0

\* C19 as claimed: the effects are confined, and removing a tree all of
\* whose entries are writable changes no permissions at all.
C19_ConfinedNoChangeIfWritable ==
    InOrAfterWalk =>
        /\ Confined
        /\ (RootExists0 /\ AllWritable0) => ChmodTargets = {} /\ Chmodded0 = {}

\* C19 as amended: the effects are confined; the filesystem changes only in
\* steps of the remover, and a permission change is made only by a call
\* whose first attempt was permission-denied, to the directory of that
\* call's entry; removing a tree all of whose entries are writable changes
\* no permissions inside the tree, and none at all when the directory
\* holding the root is owner-writable too.
C19_ConfinedChangeOnlyAfterDenial ==
    /\ [](InOrAfterWalk =>
            /\ Confined
            /\ (RootExists0 /\ AllWritable0) =>
                /\ ChmodTargets \subseteq {Front(RootNode)}
                /\ Has(Stat(fs0, Front(RootNode)).mode, S_IWUSR) => ChmodTargets = {})
    /\ [][/\ fs' # fs => Called
          /\ (Called /\ Call.chmods # <<>>) =>
                /\ IsPermissionDenied(FirstErr)
                /\ \A n \in Nodes \ {Resolve(Call.path)} :
                     fs'[n] # fs[n] => n = Front(Resolve(Call.path))
         ]_vars

\* A tree was removed whole after permission changes to a directory inside
\* it and to the directory holding its root, and nothing else changed.
C19_Witness ==
    /\ Walked
    /\ Gone
    /\ Cardinality(Tree0) >= 3
    /\ Front(RootNode) \in ChmodTargets
    /\ ChmodTargets \cap TreeDirs0 # {}

\* ---- C20
RECURSIVE RemoveCalls(_)
RemoveCalls(as) == IF as = <<>> THEN 0 ELSE Head(as).removes + RemoveCalls(Tail(as))

RECURSIVE ChmodCalls(_)
ChmodCalls(as) == IF as = <<>> THEN 0 ELSE Len(Head(as).chmods) + ChmodCalls(Tail(as))

\* The entries the walker has produced so far in this traversal.
EntriesProduced == Len(SelectSeq(produced, IsOkItem))

\* C20: a traversal never makes more than two calls of the removal
\* primitive and one permission change per entry produced; and the program
\* comes to its exit, which it reaches only after every traversal it
\* started has returned with a result recorded for its root.
C20_TerminatesWithinBounds ==
    /\ [](/\ RemoveCalls(attempts) <= 2 * EntriesProduced
          /\ ChmodCalls(attempts) <= EntriesProduced
          /\ pc = "exit" => (WalkerIdle /\ Len(results) = Len(roots)))
    /\ <>(pc = "exit")

\* A traversal has returned in which every one of three entries took a
\* permission change and a second removal call: the bounds are met with
\* equality.
C20_Witness ==
    /\ Walked
    /\ Len(attempts) >= 3
    /\ RemoveCalls(attempts) = 2 * EntriesProduced
    /\ ChmodCalls(attempts) = EntriesProduced

====
